---------------------------- MODULE Spec2Model ----------------------------
(***************************************************************************)
(* A model of rfgrep's search pipeline: the per-line matchers              *)
(* (src/src/search_algorithms.rs, src/src/simd.rs), the per-file searches  *)
(* (src/src/streaming_search.rs, src/src/processor.rs, src/src/archive.rs, *)
(* src/src/app/stdin.rs) and the orchestrator                              *)
(* (StreamingSearchPipeline::search_files_parallel and                     *)
(* RfgrepApp::perform_search).                                             *)
(*                                                                         *)
(* Text is a sequence of byte values.  A line that holds the byte 255 is   *)
(* not valid UTF-8: BufRead::lines yields Err(InvalidData) for it and goes *)
(* on with the next line.  Offsets are 0-based as in the source; TLA+      *)
(* sequences are 1-based, so text[o] of the source is text[o + 1] here.    *)
(***************************************************************************)
EXTENDS Integers, Sequences, FiniteSets, TLC

\* ------------------------------------------------------------------ bounds
MaxLineLen == 2        \* bytes in a line of an input
MaxLines == 3          \* lines in an input
MaxPatLen == 2         \* bytes in a pattern
MaxK == 1              \* context-lines value k of the streaming configuration
MaxM == 1              \* max_matches values 0..MaxM (and None)
MaxEntries == 2        \* entries of an archive
MaxFiles == 2          \* files handed to the orchestrator
MaxConcurrent == 2     \* concurrency ceiling N of search_files_parallel
MaxTextLen == 4        \* bytes in a text handed to a matcher
MaxMatchPatLen == 3    \* bytes in a pattern handed to a matcher
MaxT == 1              \* seconds of the per-file timeout
MaxSample == 4         \* bytes in the sample is_binary reads
MaxCallers == 2        \* concurrent callers of get_or_compile_regex
MaxCalls == 2          \* calls each caller makes

\* -------------------------------------------------------- program constants
CONTEXT_LINES == 2            \* processor.rs
MatchedTextMaxChars == 50     \* streaming_search.rs: chars().take(50)
ParallelThreshold == 10       \* app_simple.rs: file_refs.len() > 10
Sse42Stride == 16              \* simd.rs, Sse42Backend
Avx512Stride == 64             \* simd.rs, Avx512Backend
SimdStride == 32              \* simd.rs: Avx2Backend processes 32 bytes at a time

\* -------------------------------------------------------------- the inputs
Alphabet == <<97, 98>>          \* "ab": the bytes of the text of inputs
ByteA == Alphabet[1]
ByteB == Alphabet[2]
InvalidRegex == <<40>>          \* "(": no valid regular expression
LParen == InvalidRegex[1]
InvalidUtf8 == <<255>>          \* a byte no valid UTF-8 contains
BadByte == InvalidUtf8[1]

TextBytes == {ByteA, ByteB}

SeqsUpTo(S, n) == UNION {[1..m -> S] : m \in 0..n}

\* The lines of an input: valid text, or the one undecodable line.
LineSet == SeqsUpTo(TextBytes, MaxLineLen) \cup {InvalidUtf8}
ContentSet == SeqsUpTo(LineSet, MaxLines)
\* Patterns: literal text, or the string "(" (an invalid regular expression).
PatternSet == SeqsUpTo(TextBytes, MaxPatLen) \cup {InvalidRegex}

Algorithms == {"Simd", "BoyerMoore", "Regex", "Simple"}
None == <<>>
Some(x) == <<x>>

Min(a, b) == IF a < b THEN a ELSE b
Max(a, b) == IF a > b THEN a ELSE b
SatSub(a, b) == IF a > b THEN a - b ELSE 0

IsUtf8(line) == \A i \in 1..Len(line) : line[i] # BadByte
\* text[from..] of the source, from 0-based
Suffix(text, from) == SubSeq(text, from + 1, Len(text))
Take(s, n) == SubSeq(s, 1, Min(n, Len(s)))
\* text[o .. o + |p|] == p
OccursAt(text, p, o) ==
    /\ o + Len(p) <= Len(text)
    /\ SubSeq(text, o + 1, o + Len(p)) = p
\* The sequence of the members of a finite set of integers, increasing.
RECURSIVE SortedSeq(_)
SortedSeq(S) ==
    IF S = {} THEN <<>>
    ELSE LET m == CHOOSE x \in S : \A y \in S : x <= y
         IN <<m>> \o SortedSeq(S \ {m})

\* ------------------------------------------------------------ the matchers
\* BoyerMoore::build_bad_char_table: byte -> pattern_len - 1 - last index of it
BadCharShift(pattern, byte) ==
    LET idx == {i \in 1..Len(pattern) : pattern[i] = byte}
    IN IF idx = {} THEN Len(pattern)
       ELSE Len(pattern) - (CHOOSE i \in idx : \A j \in idx : j <= i)

\* A good-suffix table left at zero.
GoodSuffixZero(pattern_, j_) == 0

\* BoyerMoore::build_good_suffix_table, entry at the 0-based index j
GoodSuffixTable(pattern, j) ==
    IF Len(pattern) > 1 /\ j = Len(pattern) - 2 THEN Len(pattern) ELSE 1

\* The backward comparison of BoyerMoore::search: the j it stops at (k moves
\* with j: k = i - (pattern_len - 1 - j)).
RECURSIVE BMBackward(_, _, _, _)
BMBackward(pattern, text, i, j) ==
    LET k == i - (Len(pattern) - 1 - j)
    IN IF j > 0 /\ text[k + 1] = pattern[j + 1]
       THEN BMBackward(pattern, text, i, j - 1)
       ELSE j

RECURSIVE BMLoop(_, _, _, _)
BMLoop(pattern, text, i, matches) ==
    IF i >= Len(text) THEN matches
    ELSE LET plen == Len(pattern)
             j == BMBackward(pattern, text, i, plen - 1)
             k == i - (plen - 1 - j)
             found == IF j = 0 /\ text[k + 1] = pattern[1]
                      THEN Append(matches, k) ELSE matches
             bad_char_shift == BadCharShift(pattern, text[i + 1])
             good_suffix_shift == IF j < plen - 1
                                  THEN GoodSuffixTable(pattern, j + 1) ELSE 1
             shift == Max(bad_char_shift, good_suffix_shift)
         IN BMLoop(pattern, text, i + shift, found)

BoyerMooreSearch(pattern, text) ==
    IF Len(pattern) = 0 \/ Len(text) < Len(pattern) THEN <<>>
    ELSE BMLoop(pattern, text, Len(pattern) - 1, <<>>)

\* str::find on text[pos..]: the offset (relative to pos) of the first
\* occurrence, or -1 for None.
StrFind(text, p, pos) ==
    LET hits == {o \in pos..Len(text) : OccursAt(text, p, o)}
    IN IF hits = {} THEN -1
       ELSE (CHOOSE o \in hits : \A q \in hits : o <= q) - pos

RECURSIVE SimpleLoop(_, _, _, _)
SimpleLoop(pattern, text, pos, matches) ==
    LET found_pos == StrFind(text, pattern, pos)
    IN IF found_pos < 0 THEN matches
       ELSE LET next == pos + found_pos + 1
                pushed == Append(matches, pos + found_pos)
            IN IF next >= Len(text) THEN pushed
               ELSE SimpleLoop(pattern, text, next, pushed)

\* SimpleSearch::search; both constructors set case_sensitive: true, so the
\* text is never folded.
SimpleSearchSearch(pattern, text) == SimpleLoop(pattern, text, 0, <<>>)

\* A vectorised backend that takes every candidate whose first byte fits,
\* without comparing the rest of the pattern.
SimdFirstByteOnly(stride, pattern_, text_) ==
    IF Len(text_) < Len(pattern_) THEN <<>>
    ELSE SortedSeq({o \in 0..(Len(text_) - Len(pattern_)) : text_[o + 1] = pattern_[1]})

\* A vectorised backend that only takes the candidates whose occurrence lies
\* within the loaded chunk, and the tail's.
SimdWithinChunk(stride, pattern_, text_) ==
    IF Len(text_) < Len(pattern_) THEN <<>>
    ELSE LET chunked == (Len(text_) \div stride) * stride
         IN SortedSeq({o \in 0..(Len(text_) - Len(pattern_)) :
                          /\ OccursAt(text_, pattern_, o)
                          /\ \/ o >= chunked
                             \/ (o \div stride) = ((o + Len(pattern_) - 1) \div stride)})

\* A vectorised backend of simd.rs: whole chunks of `stride` bytes, every
\* candidate (first byte equal) of a chunk in increasing order, then the
\* scalar loop over the remaining bytes.
SimdBackendSearch(stride, pattern, text) ==
    IF Len(text) < Len(pattern) THEN <<>>
    ELSE LET chunked == (Len(text) \div stride) * stride
             inChunks == {o \in 0..(chunked - 1) :
                            /\ text[o + 1] = pattern[1]
                            /\ o + Len(pattern) <= Len(text)
                            /\ text[o + Len(pattern)] = pattern[Len(pattern)]
                            /\ OccursAt(text, pattern, o)}
             inTail == {o \in chunked..SatSub(Len(text), Len(pattern)) :
                            /\ text[o + 1] = pattern[1]
                            /\ OccursAt(text, pattern, o)}
         IN SortedSeq(inChunks) \o SortedSeq(inTail)

\* FallbackBackend::search
FallbackBackendSearch(pattern, text) ==
    IF pattern = <<>> \/ Len(text) < Len(pattern) THEN <<>>
    ELSE SortedSeq({o \in 0..(Len(text) - Len(pattern)) : OccursAt(text, pattern, o)})

\* SimdSearchEngine::new picks the fallback for an empty pattern.
SimdSearchSearch(pattern, text) ==
    IF pattern = <<>> THEN FallbackBackendSearch(pattern, text)
    ELSE SimdBackendSearch(SimdStride, pattern, text)

\* regex::Regex::new on the pattern strings of the model: literal text
\* compiles, an unclosed group does not.
RegexCompiles(pattern) == \A i \in 1..Len(pattern) : pattern[i] # LParen

\* Regex::find_iter: leftmost matches, each search resuming at the end of the
\* previous match; an empty match advances by one byte.
RECURSIVE RegexFindIter(_, _, _)
RegexFindIter(pattern, text, from) ==
    IF from > Len(text) THEN <<>>
    ELSE LET rel == StrFind(text, pattern, from)
         IN IF rel < 0 THEN <<>>
            ELSE LET start == from + rel
                     next == IF pattern = <<>> THEN start + 1 ELSE start + Len(pattern)
                 IN <<start>> \o RegexFindIter(pattern, text, next)

\* RegexSearch::search
RegexSearchSearch(pattern, text) == RegexFindIter(pattern, text, 0)

\* SearchAlgorithmTrait::search of the boxed matcher
AlgoSearch(algorithm, pattern, text) ==
    CASE algorithm = "Simd" -> SimdSearchSearch(pattern, text)
      [] algorithm = "BoyerMoore" -> BoyerMooreSearch(pattern, text)
      [] algorithm = "Regex" -> RegexSearchSearch(pattern, text)
      [] OTHER -> SimpleSearchSearch(pattern, text)

\* ------------------------------------------------- the per-file searches
\* Results: Ok(matches), Err(kind) or a panic of the calling task.
Ok(ms) == [tag |-> "Ok", kind |-> "", matches |-> ms]
Err(kind) == [tag |-> "Err", kind |-> kind, matches |-> <<>>]
Panic == [tag |-> "Panic", kind |-> "", matches |-> <<>>]

\* search_algorithms::SearchMatch / processor::SearchMatch (path added by the
\* caller; a path is a sequence of components, each a sequence of bytes)
MkMatch(path, line_number, line, context_before, context_after, matched_text, column_start, column_end) ==
    [path |-> path, line_number |-> line_number, line |-> line,
     context_before |-> context_before, context_after |-> context_after,
     matched_text |-> matched_text,
     column_start |-> column_start, column_end |-> column_end]

\* StreamingSearchPipeline::get_context_before
GetContextBefore(context_buffer, current_line, k) ==
    LET start == SatSub(current_line, k)
        keep(e) == e[1] >= start /\ e[1] < current_line
    IN SelectSeq(context_buffer, keep)

\* StreamingSearchPipeline::get_context_after: pulls up to k further lines
\* from the reader (`pos` lines consumed so far); an undecodable one is an
\* Io error.  The caller's line counter is not advanced.
RECURSIVE ContextAfterLoop(_, _, _, _, _)
ContextAfterLoop(lines, left, line_number, pos, acc) ==
    IF left = 0 \/ pos >= Len(lines) THEN [ok |-> TRUE, pos |-> pos, ctx |-> acc]
    ELSE LET line == lines[pos + 1]
         IN IF ~IsUtf8(line) THEN [ok |-> FALSE, pos |-> pos + 1, ctx |-> acc]
            ELSE ContextAfterLoop(lines, left - 1, line_number + 1, pos + 1,
                                  Append(acc, <<line_number + 1, line>>))

GetContextAfter(lines, current_line, k, pos) ==
    ContextAfterLoop(lines, k, current_line, pos, <<>>)

\* matched_text of process_file_streaming
StreamingMatchedText(line, match_pos) ==
    IF match_pos + 1 < Len(line)
    THEN Take(Suffix(line, match_pos), MatchedTextMaxChars)
    ELSE line

\* The `for match_pos in line_matches` loop of process_file_streaming.
RECURSIVE LineMatchesLoop(_, _, _, _, _, _, _, _)
LineMatchesLoop(lines, k, line, line_number, context_buffer, positions, pos, acc) ==
    IF positions = <<>> THEN [ok |-> TRUE, pos |-> pos, matches |-> acc]
    ELSE LET match_pos == Head(positions)
             context_before == GetContextBefore(context_buffer, line_number, k)
             after == GetContextAfter(lines, line_number, k, pos)
             m == MkMatch(<<>>, line_number, line, context_before, after.ctx,
                          StreamingMatchedText(line, match_pos),
                          match_pos, match_pos + 1)
         IN IF ~after.ok THEN [ok |-> FALSE, pos |-> after.pos, matches |-> acc]
            ELSE LineMatchesLoop(lines, k, line, line_number, context_buffer,
                                 Tail(positions), after.pos, Append(acc, m))

\* The `while let Some(line_result) = lines.next()` loop of
\* process_file_streaming.
RECURSIVE StreamingLoop(_, _, _, _, _, _, _, _)
StreamingLoop(lines, algorithm, pattern, k, pos, line_number, context_buffer, matches) ==
    IF pos >= Len(lines) THEN Ok(matches)
    ELSE LET ln == line_number + 1
             line == lines[pos + 1]
         IN IF ~IsUtf8(line)
            THEN StreamingLoop(lines, algorithm, pattern, k, pos + 1, ln,
                               context_buffer, matches)
            ELSE LET pushed == Append(context_buffer, <<ln, line>>)
                     buf == IF Len(pushed) > k * 2 + 1 THEN Tail(pushed) ELSE pushed
                     line_matches == AlgoSearch(algorithm, pattern, line)
                     r == LineMatchesLoop(lines, k, line, ln, buf, line_matches,
                                          pos + 1, matches)
                 IN IF ~r.ok THEN Err("Io")
                    ELSE StreamingLoop(lines, algorithm, pattern, k, r.pos, ln,
                                       buf, r.matches)

ProcessFileStreaming(lines, algorithm, pattern, k) ==
    StreamingLoop(lines, algorithm, pattern, k, 0, 0, <<>>, <<>>)

\* StreamingSearchPipeline::apply_post_processing
ApplyPostProcessing(matches, path, invert_match) ==
    LET should_include(m) == IF invert_match THEN m.matched_text = <<>>
                             ELSE m.matched_text # <<>>
        withPath(m) == [m EXCEPT !.path = path]
        kept == SelectSeq(matches, should_include)
    IN [i \in 1..Len(kept) |-> withPath(kept[i])]

\* Vec::truncate under `if let Some(max_matches)`
ApplyMaxMatches(matches, max_matches) ==
    IF max_matches # None /\ Len(matches) > max_matches[1]
    THEN SubSeq(matches, 1, max_matches[1])
    ELSE matches

\* Regex::find on a line: (start, end) of the leftmost match, or <<>>.
RegexFind(pattern, line) ==
    LET rel == StrFind(line, pattern, 0)
    IN IF rel < 0 THEN <<>> ELSE <<rel, rel + Len(pattern)>>

\* The context-after loop of find_matches_streaming:
\* `for next in lines_iter.by_ref().take(CONTEXT_LINES)`.
RECURSIVE ProcAfterLoop(_, _, _, _, _)
ProcAfterLoop(lines, left, line_no, pos, acc) ==
    IF left = 0 \/ pos >= Len(lines)
    THEN [ok |-> TRUE, pos |-> pos, line_no |-> line_no, ctx |-> acc]
    ELSE LET nline == lines[pos + 1]
         IN IF ~IsUtf8(nline)
            THEN [ok |-> FALSE, pos |-> pos + 1, line_no |-> line_no, ctx |-> acc]
            ELSE ProcAfterLoop(lines, left - 1, line_no + 1, pos + 1,
                               Append(acc, <<line_no + 1, nline>>))

\* processor::find_matches_streaming
RECURSIVE ProcStreamingLoop(_, _, _, _, _, _, _)
ProcStreamingLoop(lines, pattern, path, pos, line_no, buffer, matches) ==
    IF pos >= Len(lines) THEN Ok(matches)
    ELSE LET ln == line_no + 1
             line == lines[pos + 1]
         IN IF ~IsUtf8(line) THEN Err("Io")
            ELSE LET pushed == Append(buffer, <<ln, line>>)
                     buf == IF Len(pushed) > 2 * CONTEXT_LINES + 1
                            THEN Tail(pushed) ELSE pushed
                     found == RegexFind(pattern, line)
                 IN IF found = <<>>
                    THEN ProcStreamingLoop(lines, pattern, path, pos + 1, ln, buf, matches)
                    ELSE LET context_before == Take(buf, CONTEXT_LINES)
                             after == ProcAfterLoop(lines, CONTEXT_LINES, ln, pos + 1, <<>>)
                             m == MkMatch(path, after.line_no, line, context_before,
                                          after.ctx,
                                          SubSeq(line, found[1] + 1, found[2]),
                                          found[1], found[2])
                         IN IF ~after.ok THEN Err("Io")
                            ELSE ProcStreamingLoop(lines, pattern, path, after.pos,
                                                   after.line_no, buf, Append(matches, m))

FindMatchesStreaming(lines, pattern, path) ==
    ProcStreamingLoop(lines, pattern, path, 0, 0, <<>>, <<>>)

\* processor::find_matches_with_context on the lines of the mapped content
RECURSIVE MmapLoop(_, _, _, _, _)
MmapLoop(lines, pattern, path, i, matches) ==
    IF i >= Len(lines) THEN Ok(matches)
    ELSE LET line == lines[i + 1]
             found == RegexFind(pattern, line)
         IN IF found = <<>> THEN MmapLoop(lines, pattern, path, i + 1, matches)
            ELSE LET start_idx == SatSub(i, CONTEXT_LINES)
                     context_before ==
                         [n \in 1..(i - start_idx) |-> <<start_idx + n, lines[start_idx + n]>>]
                     end_idx == Min(i + CONTEXT_LINES + 1, Len(lines))
                     context_after ==
                         [n \in 1..SatSub(end_idx, i + 1) |-> <<i + 1 + n, lines[i + 1 + n]>>]
                 IN MmapLoop(lines, pattern, path, i + 1,
                      Append(matches,
                        MkMatch(path, i + 1, line, context_before, context_after,
                                SubSeq(line, found[1] + 1, found[2]), found[1], found[2])))

FindMatchesWithContext(lines, pattern, path) == MmapLoop(lines, pattern, path, 0, <<>>)

\* archive::search_zip / search_tar: every entry goes through
\* find_matches_streaming under the path <archive>/<entry>; an entry whose
\* search fails is left out (`if let Ok(file_matches)`).
EntryName(i) == <<48 + i>>

RECURSIVE SearchArchiveLoop(_, _, _, _)
SearchArchiveLoop(file, pattern, i, matches) ==
    IF i > file.entries THEN matches
    ELSE LET r == FindMatchesStreaming(file.lines, pattern,
                                       Append(file.path, EntryName(i)))
         IN SearchArchiveLoop(file, pattern, i + 1,
                              IF r.tag = "Ok" THEN matches \o r.matches ELSE matches)

SearchArchive(file, pattern) == SearchArchiveLoop(file, pattern, 1, <<>>)

\* StreamingSearchPipeline::create_search_algorithm: RegexSearch::new
\* `expect`s the pattern to compile; the other matchers take any pattern.
CreateSearchAlgorithmPanics(algorithm, pattern) ==
    algorithm = "Regex" /\ ~RegexCompiles(pattern)

\* StreamingSearchPipeline::search_file with the configuration cfg
SearchFile(file, pattern, cfg) ==
    IF file.binary THEN Ok(<<>>)
    ELSE IF file.kind = "archive"
    THEN IF ~RegexCompiles(pattern) THEN Err("Regex")
         ELSE IF ~file.readable THEN Err("Io")
         ELSE Ok(ApplyMaxMatches(SearchArchive(file, pattern), cfg.max_matches))
    ELSE IF ~file.readable THEN Err("Io")
    ELSE IF CreateSearchAlgorithmPanics(cfg.algorithm, pattern) THEN Panic
    ELSE LET r == ProcessFileStreaming(file.lines, cfg.algorithm, pattern,
                                       cfg.context_lines)
         IN IF r.tag # "Ok" THEN r
            ELSE Ok(ApplyMaxMatches(
                      ApplyPostProcessing(r.matches, file.path, cfg.invert_match),
                      cfg.max_matches))

\* StdinSearcher::search: the loop over reader.lines().enumerate()
StdinPath == << <<60, 115, 116, 100, 105, 110, 62>> >>   \* "<stdin>"

RECURSIVE StdinLoop(_, _, _, _, _, _)
StdinLoop(lines, pattern, opts, line_number, matches, match_count) ==
    IF line_number >= Len(lines)
    THEN [tag |-> "Ok", kind |-> "", matches |-> matches, match_count |-> match_count]
    ELSE LET line == lines[line_number + 1]
             found == RegexFind(pattern, line)
             is_match == found # <<>>
             should_include == IF opts.invert_match THEN ~is_match ELSE is_match
             m == IF is_match
                  THEN MkMatch(StdinPath, line_number, line, <<>>, <<>>,
                               SubSeq(line, found[1] + 1, found[2]), found[1], found[2])
                  ELSE MkMatch(StdinPath, line_number, line, <<>>, <<>>,
                               <<>>, 0, Len(line))
             pushed == IF ~opts.count /\ ~opts.files_with_matches
                       THEN Append(matches, m) ELSE matches
         IN IF ~IsUtf8(line)
            THEN [tag |-> "Err", kind |-> "Io", matches |-> <<>>, match_count |-> 0]
            ELSE IF ~should_include
            THEN StdinLoop(lines, pattern, opts, line_number + 1, matches, match_count)
            ELSE IF opts.max_matches # None /\ match_count + 1 >= opts.max_matches[1]
            THEN [tag |-> "Ok", kind |-> "", matches |-> pushed,
                  match_count |-> match_count + 1]
            ELSE StdinLoop(lines, pattern, opts, line_number + 1, pushed,
                           match_count + 1)

StdinSearch(lines, pattern, opts) ==
    IF ~RegexCompiles(pattern)
    THEN [tag |-> "Err", kind |-> "Regex", matches |-> <<>>, match_count |-> 0]
    ELSE StdinLoop(lines, pattern, opts, 0, <<>>, 0)

\* ------------------------------------------------------------ input files
PlainFile(path, lines) ==
    [path |-> path, kind |-> "plain", readable |-> TRUE, binary |-> FALSE,
     lines |-> lines, entries |-> 0]
\* A file that cannot be opened (File::open fails; is_binary answers false).
UnreadableFile(path) ==
    [path |-> path, kind |-> "plain", readable |-> FALSE, binary |-> FALSE,
     lines |-> <<>>, entries |-> 0]
\* A file processor::is_binary classifies binary (two NUL bytes).
BinaryFile(path) ==
    [path |-> path, kind |-> "plain", readable |-> TRUE, binary |-> TRUE,
     lines |-> << <<0, 0>> >>, entries |-> 0]
\* A zip or tar archive of n entries, each holding `lines`.
ArchiveFile(path, lines, n) ==
    [path |-> path, kind |-> "archive", readable |-> TRUE, binary |-> FALSE,
     lines |-> lines, entries |-> n]

PathOf(i) == << <<ByteA + i - 1>> >>     \* "a", "b", "c", ...

FileSet(path) ==
    {PlainFile(path, c) : c \in ContentSet}
      \cup {UnreadableFile(path), BinaryFile(path)}
      \cup {ArchiveFile(path, c, n) : c \in ContentSet, n \in 1..MaxEntries}

MaxMatchesSet == {None} \cup {Some(m) : m \in 0..MaxM}
ConfigSet ==
    [algorithm : Algorithms, context_lines : 0..MaxK,
     invert_match : BOOLEAN, max_matches : MaxMatchesSet]
StdinOptionSet ==
    [invert_match : BOOLEAN, max_matches : MaxMatchesSet,
     count : BOOLEAN, files_with_matches : BOOLEAN]

\* The files a batch is made of: per path, a file with several matching
\* lines, a one-line file, a file that cannot be opened, and an archive.
Corpus(path) ==
    {PlainFile(path, << <<ByteA, ByteA>>, <<ByteB>>, <<ByteA>> >>),
     PlainFile(path, << <<ByteA>> >>),
     UnreadableFile(path),
     ArchiveFile(path, << <<ByteA>> >>, 1)}

\* The file lists of a batch: up to MaxFiles files of distinct paths, in any
\* (discovery) order.
DistinctPaths(fs) == \A i, j \in 1..Len(fs) : i # j => fs[i].path # fs[j].path
BatchSet ==
    {fs \in SeqsUpTo(UNION {Corpus(PathOf(i)) : i \in 1..MaxFiles}, MaxFiles) :
        DistinctPaths(fs)}

\* ---------------------------------------------------- file classification
\* The byte-order marks is_binary looks for.
BomUtf16Le == <<255, 254>>
BomUtf16Be == <<254, 255>>
BomUtf8 == <<239, 187, 191>>
NulByte == <<0>>
SampleBytes ==
    {NulByte[1], ByteA} \cup {BomUtf8[i] : i \in 1..3} \cup {BomUtf16Le[i] : i \in 1..2}
SampleSet == SeqsUpTo(SampleBytes, MaxSample)

\* What infer::get_from_path answers: None, or a MIME type as <<type, subtype>>.
MimeGzip == <<"application", "gzip">>
MimeSet == {None, Some(<<"text", "html">>), Some(MimeGzip)}

NullBytes(sample) == Cardinality({i \in 1..Len(sample) : sample[i] = NulByte[1]})
\* The pairs (buffer[i], buffer[i + 1]) of `for i in (0..n - 1).step_by(2)`,
\* by the 1-based position of their first byte.
PairStarts(n) == {i \in 1..(n - 1) : i % 2 = 1}

\* processor::is_binary on a file whose first BINARY_CHECK_SIZE bytes are
\* `sample` and for which infer answers `mime`.  The threshold
\* (n as f64 * 0.1).max(1.0) is compared in tenths.
IsBinary(mime, sample) ==
    IF mime # None /\ mime[1][1] # "text" THEN TRUE
    ELSE LET n == Len(sample)
             utf16_likely ==
                 \A i \in PairStarts(n) :
                     ~(sample[i] # NulByte[1] /\ sample[i + 1] = NulByte[1])
             utf16_be_likely ==
                 \A i \in PairStarts(n) :
                     ~(sample[i] = NulByte[1] /\ sample[i + 1] # NulByte[1])
         IN IF n = 0 THEN FALSE
            ELSE IF n >= 2 /\ (Take(sample, 2) = BomUtf16Le \/ Take(sample, 2) = BomUtf16Be)
            THEN FALSE
            ELSE IF n >= 3 /\ Take(sample, 3) = BomUtf8 THEN FALSE
            ELSE IF n >= 4 /\ (utf16_likely \/ utf16_be_likely) THEN FALSE
            ELSE 10 * NullBytes(sample) > Max(n, 10)

\* ------------------------------------------------------------ file filter
MiB == 1024 * 1024
ConservativeMaxSize == 10 * MiB
PerformanceMaxSize == 500 * MiB

\* The classifier's extension table, partitioned into always-search,
\* never-search and conditional; one extension of each part.
AlwaysSearch == {"txt"}
NeverSearch == {"exe"}
ConditionalSearch == {"dat"}
ExtSet == AlwaysSearch \cup NeverSearch \cup ConditionalSearch
\* FileTypeClassifier::should_search for a regular file: the table's answer.
ClassifierShouldSearch(ext) ==
    IF ext \in AlwaysSearch THEN "Search"
    ELSE IF ext \in NeverSearch THEN "Skip"
    ELSE "Conditional"

\* FileFilter::apply_safety_policy
ApplySafetyPolicy(opts, size, ext) ==
    IF opts.safety_policy = "Conservative"
    THEN IF size > ConservativeMaxSize THEN FALSE ELSE ext \in AlwaysSearch
    ELSE IF opts.safety_policy = "Performance" THEN size <= PerformanceMaxSize
    ELSE TRUE

\* FileFilter::apply_extension_filters
ApplyExtensionFilters(opts, ext) ==
    IF opts.include_extensions # None /\ ext \notin opts.include_extensions[1] THEN FALSE
    ELSE IF opts.exclude_extensions # None /\ ext \in opts.exclude_extensions[1] THEN FALSE
    ELSE TRUE

\* FileFilter::should_search_by_file_type
ShouldSearchByFileType(opts, ext) ==
    IF opts.search_all_files THEN TRUE
    ELSE IF opts.text_only THEN ext \in AlwaysSearch
    ELSE IF opts.file_types = "Comprehensive" THEN ext \notin NeverSearch
    ELSE IF opts.file_types = "Conservative" THEN ext \in AlwaysSearch
    ELSE IF opts.file_types = "Performance"
    THEN ext \in AlwaysSearch \/ ext \in ConditionalSearch
    ELSE ClassifierShouldSearch(ext) \in {"Search", "Conditional"}

\* FileFilter::apply_size_limits: size in MiB (as f64) > max_size
ApplySizeLimits(opts, size) ==
    IF opts.max_size # None /\ size > opts.max_size[1] * MiB THEN FALSE ELSE TRUE

\* FileFilter::should_search_file on a path whose metadata and content are
\* those of `cand`.
ShouldSearchFile(opts, cand) ==
    IF ~cand.metadata THEN FALSE
    ELSE IF opts.skip_binary /\ cand.binary THEN FALSE
    ELSE IF ~ApplySafetyPolicy(opts, cand.size, cand.ext) THEN FALSE
    ELSE IF ~ApplyExtensionFilters(opts, cand.ext) THEN FALSE
    ELSE IF ~ShouldSearchByFileType(opts, cand.ext) THEN FALSE
    ELSE IF ~ApplySizeLimits(opts, cand.size) THEN FALSE
    ELSE TRUE

FileTypeStrategies == {"Default", "Comprehensive", "Conservative", "Performance"}
SafetyPolicies == {"Default", "Conservative", "Performance"}
FileFilterOptionsSet ==
    [max_size : {None, Some(1)}, skip_binary : BOOLEAN,
     safety_policy : SafetyPolicies,
     include_extensions : {None, Some(AlwaysSearch)},
     exclude_extensions : {None, Some(NeverSearch)},
     search_all_files : BOOLEAN, text_only : BOOLEAN,
     file_types : FileTypeStrategies]
\* FileFilterOptions::default()
DefaultOptions ==
    [max_size |-> None, skip_binary |-> FALSE, safety_policy |-> "Default",
     include_extensions |-> None, exclude_extensions |-> None,
     search_all_files |-> FALSE, text_only |-> FALSE, file_types |-> "Default"]
\* Candidate paths: extension, size in bytes at and around the caps, whether
\* the metadata can be read, whether is_binary calls the file binary.
SizeSet ==
    {0, MiB + 1, ConservativeMaxSize, ConservativeMaxSize + 1,
     PerformanceMaxSize, PerformanceMaxSize + 1}
CandidateSet == [ext : ExtSet, size : SizeSet, metadata : BOOLEAN, binary : BOOLEAN]
NoCandidate == [ext |-> "txt", size |-> 0, metadata |-> TRUE, binary |-> FALSE]

\* The first bytes of a gzip stream (magic 1f 8b, method 8), which infer
\* recognises as application/gzip.
GzipMagic == <<31, 139, 8>>

\* A compressed stream (gz, bz2, xz, zst, lz4 by its extension) whose
\* decompressed content is `lines`; is_binary sees the compressed bytes and
\* infer's answer for them.
CompressedFile(path, lines, m) ==
    [path |-> path, kind |-> "compressed", readable |-> TRUE,
     binary |-> IsBinary(m, GzipMagic), lines |-> lines, entries |-> 0]

\* Compressed inputs: a format infer recognises by its magic bytes, and one it
\* does not know.
CompressedCorpus(path) ==
    {CompressedFile(path, << <<ByteA>>, <<ByteB>> >>, m) : m \in {None, Some(MimeGzip)}}

\* ------------------------------------------------------------------ state
VARIABLES
    file,            \* the input of a per-file search
    pattern,         \* the search pattern
    producer,        \* "none", or the per-file search that ran
    config,          \* the configuration of the search
    result,          \* what the per-file search returned
    files,           \* the batch handed to the orchestrator
    max_concurrent,  \* the concurrency ceiling N
    route,           \* "none", or the path taken: "parallel" or "serial"
    mode,            \* "idle", "spawning", "collecting", "serial" or "done"
    tasks,           \* per file: the spawned task's position
    permits,         \* free permits of the semaphore
    chan,            \* the mpsc channel: results sent and not yet received
    all_matches,     \* the collector's list
    next_file,       \* the serial loop's position
    logged,          \* results reported on stderr, in order
    batch,           \* what the orchestrator returned
    text,            \* the text handed to a matcher
    case_sensitive,  \* the case_sensitive flag of the configuration
    matcher,         \* "none", or the matcher that searched the text
    offsets,         \* the offsets the matcher returned
    shutdown,        \* SHUTDOWN_REQUESTED
    exit_code,       \* the exit code of the process, -1 while it runs
    worker_sleep,    \* RFGREP_WORKER_SLEEP: None or Some(seconds)
    search_time,     \* the seconds the search of the file takes
    sample,          \* the bytes is_binary reads from the file
    mime,            \* what infer answers for the file
    verdict,         \* "none", or is_binary's answer: "binary" or "text"
    options,         \* the FileFilterOptions of the run
    candidate,       \* the path handed to the filter
    accepted,        \* "none", or should_search_file's answer
    bm,              \* the frame of BoyerMoore::search: its locals
    regex_cache,     \* REGEX_CACHE: the pairs <<pattern string, regex>>
    mutex,           \* the holder of REGEX_CACHE's mutex, or None
    callers,         \* per caller of get_or_compile_regex: its position
    inserted         \* the pattern strings inserted into the cache, in order

fvars == <<file, pattern, producer, config, result>>
orchvars == <<files, max_concurrent, route, mode, tasks, permits, chan, all_matches,
              next_file, logged, batch>>
mvars == <<text, case_sensitive, matcher, offsets>>
proc == <<shutdown, exit_code>>
tvars == <<worker_sleep, search_time>>
cvars == <<sample, mime, verdict>>
flvars == <<options, candidate, accepted>>
bmvars == <<bm>>
rcvars == <<regex_cache, mutex, callers, inserted>>
aux == <<cvars, flvars, bmvars, rcvars>>
base == <<fvars, orchvars, proc, mvars, tvars>>
ovars == <<orchvars, proc, mvars, tvars, aux>>
vars == <<file, pattern, producer, config, result, files, max_concurrent,
          route, mode, tasks, permits, chan, all_matches, next_file, logged, batch,
          text, case_sensitive, matcher, offsets, shutdown, exit_code,
          worker_sleep, search_time, sample, mime, verdict,
          options, candidate, accepted, bm, regex_cache, mutex, callers, inserted>>

NoConfig == [algorithm |-> "BoyerMoore", context_lines |-> 0,
             invert_match |-> FALSE, max_matches |-> None,
             timeout_per_file |-> None,
             count |-> FALSE, files_with_matches |-> FALSE]
NoResult == [tag |-> "none", kind |-> "", matches |-> <<>>, match_count |-> 0]
NoFile == PlainFile(PathOf(1), <<>>)
NoBatch == [tag |-> "none", kind |-> "", matches |-> <<>>]

Running == 0 - 1

\* The process runs, no signal has arrived, no timed search is set up.
ProcIdle ==
    /\ shutdown = FALSE
    /\ exit_code = Running
    /\ worker_sleep = None
    /\ search_time = 0

\* No matcher has been handed a text.
MatchIdle ==
    /\ text = <<>>
    /\ case_sensitive = TRUE
    /\ matcher = "none"
    /\ offsets = <<>>

\* No file has been classified.
ClassifyIdle ==
    /\ sample = <<>>
    /\ mime = None
    /\ verdict = "none"

\* No path has been filtered.
FilterIdle ==
    /\ options = DefaultOptions
    /\ candidate = NoCandidate
    /\ accepted = "none"

NoFrame == [pc |-> "idle", i |-> 0, j |-> 0, k |-> 0, shift |-> 0, iterations |-> 0]
\* BoyerMoore::search has not been entered.
BMIdle == bm = NoFrame

\* The cache is empty and nobody asks for a regex.
CacheIdle ==
    /\ regex_cache = {}
    /\ mutex = None
    /\ callers = <<>>
    /\ inserted = <<>>

AuxIdle ==
    /\ ClassifyIdle
    /\ FilterIdle
    /\ BMIdle
    /\ CacheIdle

OrchIdle ==
    /\ route = "none"
    /\ mode = "idle"
    /\ tasks = <<>>
    /\ permits = 0
    /\ chan = <<>>
    /\ all_matches = <<>>
    /\ next_file = 1
    /\ logged = <<>>
    /\ batch = NoBatch

\* No search of any kind is set up.
BaseIdle ==
    /\ file = NoFile
    /\ pattern = <<>>
    /\ producer = "none"
    /\ config = NoConfig
    /\ result = NoResult
    /\ files = <<>>
    /\ max_concurrent = 1
    /\ OrchIdle
    /\ MatchIdle
    /\ ProcIdle

\* One input, no search run yet.
Init ==
    /\ file \in FileSet(PathOf(1))
    /\ pattern \in PatternSet
    /\ producer = "none"
    /\ config = NoConfig
    /\ result = NoResult
    /\ files = <<>>
    /\ max_concurrent = 1
    /\ OrchIdle
    /\ MatchIdle
    /\ ProcIdle
    /\ AuxIdle

\* StreamingSearchPipeline::new(cfg).search_file(path, pattern)
PipelineSearchFile ==
    /\ producer = "none"
    /\ \E cfg \in ConfigSet :
         LET r == SearchFile(file, pattern, cfg)
         IN /\ config' = [NoConfig EXCEPT !.algorithm = cfg.algorithm,
                                          !.context_lines = cfg.context_lines,
                                          !.invert_match = cfg.invert_match,
                                          !.max_matches = cfg.max_matches]
            /\ result' = [tag |-> r.tag, kind |-> r.kind, matches |-> r.matches,
                          match_count |-> Len(r.matches)]
    /\ producer' = IF file.kind = "archive" THEN "archive" ELSE "pipeline"
    /\ UNCHANGED <<file, pattern>>
    /\ UNCHANGED ovars

\* processor::find_matches_streaming on the opened file, with the compiled
\* regex of the pattern (the streaming branch of processor::search_file)
ProcessorSearchFile ==
    /\ producer = "none"
    /\ file.kind = "plain" /\ file.readable /\ ~file.binary
    /\ RegexCompiles(pattern)
    /\ LET r == FindMatchesStreaming(file.lines, pattern, file.path)
       IN result' = [tag |-> r.tag, kind |-> r.kind, matches |-> r.matches,
                     match_count |-> Len(r.matches)]
    /\ producer' = "processor"
    /\ UNCHANGED <<file, pattern, config>>
    /\ UNCHANGED ovars

\* find_matches_with_context on the memory-mapped content (the branch of
\* processor::search_file for a file at or above the mmap threshold whose
\* bytes are valid UTF-8), with the compiled regex of the pattern
ProcessorSearchFileMmap ==
    /\ producer = "none"
    /\ file.kind = "plain" /\ file.readable /\ ~file.binary
    /\ \A i \in 1..Len(file.lines) : IsUtf8(file.lines[i])
    /\ RegexCompiles(pattern)
    /\ LET r == FindMatchesWithContext(file.lines, pattern, file.path)
       IN result' = [tag |-> r.tag, kind |-> r.kind, matches |-> r.matches,
                     match_count |-> Len(r.matches)]
    /\ producer' = "mmap"
    /\ UNCHANGED <<file, pattern, config>>
    /\ UNCHANGED ovars

\* StdinSearcher::search with the file's lines piped to stdin
StdinSearchRun ==
    /\ producer = "none"
    /\ file.kind = "plain" /\ file.readable /\ ~file.binary
    /\ \E opts \in StdinOptionSet :
         /\ config' = [NoConfig EXCEPT !.invert_match = opts.invert_match,
                                       !.max_matches = opts.max_matches,
                                       !.count = opts.count,
                                       !.files_with_matches = opts.files_with_matches]
         /\ result' = StdinSearch(file.lines, pattern, opts)
    /\ producer' = "stdin"
    /\ UNCHANGED <<file, pattern>>
    /\ UNCHANGED ovars

Next ==
    \/ PipelineSearchFile
    \/ ProcessorSearchFile
    \/ ProcessorSearchFileMmap
    \/ StdinSearchRun

Spec == Init /\ [][Next]_vars


\* ------------------------------------------------------- the orchestrator
\* Ord of usize, and of String (byte-wise, a prefix first): -1, 0 or 1.
CmpInt(a, b) == IF a < b THEN -1 ELSE IF a > b THEN 1 ELSE 0

RECURSIVE CmpBytes(_, _)
CmpBytes(a, b) ==
    IF a = <<>> THEN (IF b = <<>> THEN 0 ELSE -1)
    ELSE IF b = <<>> THEN 1
    ELSE IF Head(a) # Head(b) THEN CmpInt(Head(a), Head(b))
    ELSE CmpBytes(Tail(a), Tail(b))

\* Ord of PathBuf: component by component.
RECURSIVE CmpPath(_, _)
CmpPath(a, b) ==
    IF a = <<>> THEN (IF b = <<>> THEN 0 ELSE -1)
    ELSE IF b = <<>> THEN 1
    ELSE IF CmpBytes(Head(a), Head(b)) # 0 THEN CmpBytes(Head(a), Head(b))
    ELSE CmpPath(Tail(a), Tail(b))

\* Ord of Vec<(usize, String)>
RECURSIVE CmpCtx(_, _)
CmpCtx(a, b) ==
    IF a = <<>> THEN (IF b = <<>> THEN 0 ELSE -1)
    ELSE IF b = <<>> THEN 1
    ELSE IF CmpInt(Head(a)[1], Head(b)[1]) # 0 THEN CmpInt(Head(a)[1], Head(b)[1])
    ELSE IF CmpBytes(Head(a)[2], Head(b)[2]) # 0 THEN CmpBytes(Head(a)[2], Head(b)[2])
    ELSE CmpCtx(Tail(a), Tail(b))

\* #[derive(Ord)] of processor::SearchMatch: the fields in declaration order.
CmpMatch(a, b) ==
    IF CmpPath(a.path, b.path) # 0 THEN CmpPath(a.path, b.path)
    ELSE IF CmpInt(a.line_number, b.line_number) # 0
    THEN CmpInt(a.line_number, b.line_number)
    ELSE IF CmpBytes(a.line, b.line) # 0 THEN CmpBytes(a.line, b.line)
    ELSE IF CmpCtx(a.context_before, b.context_before) # 0
    THEN CmpCtx(a.context_before, b.context_before)
    ELSE IF CmpCtx(a.context_after, b.context_after) # 0
    THEN CmpCtx(a.context_after, b.context_after)
    ELSE IF CmpBytes(a.matched_text, b.matched_text) # 0
    THEN CmpBytes(a.matched_text, b.matched_text)
    ELSE IF CmpInt(a.column_start, b.column_start) # 0
    THEN CmpInt(a.column_start, b.column_start)
    ELSE CmpInt(a.column_end, b.column_end)

\* Vec::sort (stable): each element goes behind the last one not greater.
RECURSIVE InsertSorted(_, _)
InsertSorted(sorted, m) ==
    IF sorted = <<>> THEN <<m>>
    ELSE IF CmpMatch(m, Head(sorted)) < 0 THEN <<m>> \o sorted
    ELSE <<Head(sorted)>> \o InsertSorted(Tail(sorted), m)

RECURSIVE SortLoop(_, _)
SortLoop(ms, sorted) ==
    IF ms = <<>> THEN sorted
    ELSE SortLoop(Tail(ms), InsertSorted(sorted, Head(ms)))

\* the unchanged list, for comparison with the sorted one
KeepOrder(ms) == ms

\* all_matches.sort()
SortMatches(ms) == SortLoop(ms, <<>>)

\* The StreamingConfig perform_search builds from the command line.
OrchConfigSet ==
    {[NoConfig EXCEPT !.algorithm = a, !.context_lines = k] :
        a \in {"BoyerMoore", "Regex"}, k \in 0..MaxK}
OrchPatternSet == {<<ByteA>>, InvalidRegex}

NewTask == [pc |-> "acquire", res |-> NoBatch, sent |-> 0]

\* A batch of files, a pattern, a configuration and a concurrency ceiling;
\* nothing started.
InitOrch ==
    /\ file = NoFile
    /\ producer = "none"
    /\ result = NoResult
    /\ pattern \in OrchPatternSet
    /\ config \in OrchConfigSet
    /\ files \in BatchSet
    /\ max_concurrent \in 0..MaxConcurrent      \* --threads takes any usize
    /\ route = "none"
    /\ mode = "idle"
    /\ tasks = <<>>
    /\ permits = 0
    /\ chan = <<>>
    /\ all_matches = <<>>
    /\ next_file = 1
    /\ logged = <<>>
    /\ batch = NoBatch
    /\ MatchIdle
    /\ ProcIdle
    /\ AuxIdle

\* The head of search_files_parallel: mpsc::channel(files.len()), which
\* panics on a capacity of 0, and Semaphore::new(max_concurrent).
EnterParallel ==
    /\ route' = "parallel"
    /\ IF Len(files) = 0
       THEN /\ mode' = "done"
            /\ batch' = Panic
            /\ permits' = permits
       ELSE /\ mode' = "spawning"
            /\ batch' = batch
            /\ permits' = max_concurrent
    /\ UNCHANGED <<files, max_concurrent, tasks, chan, all_matches, next_file, logged>>


\* What no step of the orchestrator changes.
inputs == <<file, producer, result, pattern, config, files, max_concurrent, mvars, tvars, aux>>

\* A direct call of the public search_files_parallel(files, pattern, N).
CallSearchFilesParallel ==
    /\ mode = "idle"
    /\ EnterParallel
    /\ UNCHANGED <<inputs, proc>>

\* RfgrepApp::perform_search: the parallel path for more than 10 files, the
\* serial loop otherwise.
PerformSearch ==
    /\ mode = "idle"
    /\ IF Len(files) > ParallelThreshold
       THEN EnterParallel
       ELSE /\ route' = "serial"
            /\ mode' = "serial"
            /\ UNCHANGED <<tasks, permits, chan, all_matches, next_file, logged, batch>>
    /\ UNCHANGED <<inputs, proc>>

\* One round of `for file_path in files`: task::spawn of the file's task.
SpawnTask ==
    /\ mode = "spawning"
    /\ Len(tasks) < Len(files)
    /\ tasks' = Append(tasks, NewTask)
    /\ UNCHANGED <<route, mode, permits, chan, all_matches, next_file, logged, batch>>
    /\ UNCHANGED <<inputs, proc>>

\* drop(tx) after the loop; the collector starts to receive.
DropTx ==
    /\ mode = "spawning"
    /\ Len(tasks) = Len(files)
    /\ mode' = "collecting"
    /\ UNCHANGED <<route, tasks, permits, chan, all_matches, next_file, logged, batch>>
    /\ UNCHANGED <<inputs, proc>>

\* a task that goes on to its search without waiting for a permit
AcquireWithoutPermit(i) ==
    /\ tasks[i].pc = "acquire"
    /\ permits' = permits - 1
    /\ tasks' = [tasks EXCEPT ![i].pc = "search"]
    /\ UNCHANGED <<route, mode, chan, all_matches, next_file, logged, batch>>
    /\ UNCHANGED <<inputs, proc>>

\* Task i: semaphore.acquire().await
Acquire(i) ==
    /\ tasks[i].pc = "acquire"
    /\ permits > 0
    /\ permits' = permits - 1
    /\ tasks' = [tasks EXCEPT ![i].pc = "search"]
    /\ UNCHANGED <<route, mode, chan, all_matches, next_file, logged, batch>>
    /\ UNCHANGED <<inputs, proc>>

\* Task i: pipeline.search_file(&file_path, &pattern).await.  A panic unwinds
\* the task: its permit and its sender are dropped, nothing is sent.
TaskSearch(i) ==
    /\ tasks[i].pc = "search"
    /\ LET r == SearchFile(files[i], pattern, config)
       IN IF r.tag = "Panic"
          THEN /\ tasks' = [tasks EXCEPT ![i].pc = "panicked"]
               /\ permits' = permits + 1
          ELSE /\ tasks' = [tasks EXCEPT ![i].pc = "send", ![i].res = r]
               /\ permits' = permits
    /\ UNCHANGED <<route, mode, chan, all_matches, next_file, logged, batch>>
    /\ UNCHANGED <<inputs, proc>>

\* Task i: tx.send(result).await (the channel holds files.len() results, so
\* the send never waits), then the task ends and drops its permit and sender.
TaskSend(i) ==
    /\ tasks[i].pc = "send"
    /\ chan' = Append(chan, tasks[i].res)
    /\ tasks' = [tasks EXCEPT ![i].pc = "done", ![i].sent = tasks[i].sent + 1]
    /\ permits' = permits + 1
    /\ UNCHANGED <<route, mode, all_matches, next_file, logged, batch>>
    /\ UNCHANGED <<inputs, proc>>

\* The collector: one `rx.recv().await` that yields a result.
Recv ==
    /\ mode = "collecting"
    /\ chan # <<>>
    /\ chan' = Tail(chan)
    /\ IF Head(chan).tag = "Ok"
       THEN /\ all_matches' = all_matches \o Head(chan).matches
            /\ logged' = logged
       ELSE /\ all_matches' = all_matches
            /\ logged' = Append(logged, Head(chan).kind)
    /\ UNCHANGED <<route, mode, tasks, permits, next_file, batch>>
    /\ UNCHANGED <<inputs, proc>>

\* recv() yields None once the channel is empty and every sender is dropped;
\* then all_matches.sort() and Ok(all_matches).
Finish ==
    /\ mode = "collecting"
    /\ chan = <<>>
    /\ \A i \in 1..Len(tasks) : tasks[i].pc \in {"done", "panicked"}
    /\ batch' = Ok(SortMatches(all_matches))
    /\ mode' = "done"
    /\ UNCHANGED <<route, tasks, permits, chan, all_matches, next_file, logged>>
    /\ UNCHANGED <<inputs, proc>>

\* One round of the serial loop of perform_search; a panic of search_file
\* unwinds perform_search.
SerialStep ==
    /\ mode = "serial"
    /\ next_file <= Len(files)
    /\ LET r == SearchFile(files[next_file], pattern, config)
       IN IF r.tag = "Panic"
          THEN /\ batch' = Panic
               /\ mode' = "done"
               /\ UNCHANGED <<all_matches, logged, next_file>>
          ELSE /\ next_file' = next_file + 1
               /\ all_matches' = IF r.tag = "Ok" THEN all_matches \o r.matches
                                 ELSE all_matches
               /\ logged' = IF r.tag = "Ok" THEN logged ELSE Append(logged, r.kind)
               /\ UNCHANGED <<batch, mode>>
    /\ UNCHANGED <<route, tasks, permits, chan>>
    /\ UNCHANGED <<inputs, proc>>

\* The end of the serial loop: Ok(all_matches), as collected.
SerialFinish ==
    /\ mode = "serial"
    /\ next_file > Len(files)
    /\ batch' = Ok(all_matches)
    /\ mode' = "done"
    /\ UNCHANGED <<route, tasks, permits, chan, all_matches, next_file, logged>>
    /\ UNCHANGED <<inputs, proc>>

\* The Ctrl-C handler main_inner installs: it stores true in
\* SHUTDOWN_REQUESTED.  Nothing in the program loads the flag.
SigInt ==
    /\ ~shutdown
    /\ exit_code = Running
    /\ shutdown' = TRUE
    /\ UNCHANGED <<inputs, orchvars, exit_code>>

\* handle_search with piped stdin: StdinSearcher::search; its error goes up
\* to main, which prints `Error: ...` and exits with 1.
HandleSearchStdin ==
    /\ mode = "idle"
    /\ \E lines \in {<<>>, << <<ByteA>> >>} :
         LET r == StdinSearch(lines, pattern,
                              [invert_match |-> FALSE, max_matches |-> None,
                               count |-> FALSE, files_with_matches |-> FALSE])
         IN exit_code' = IF r.tag = "Err" THEN 1 ELSE 0
    /\ route' = "stdin"
    /\ mode' = "done"
    /\ UNCHANGED <<tasks, permits, chan, all_matches, next_file, logged, batch>>
    /\ UNCHANGED <<inputs, shutdown>>

\* main after handle_search's perform_search: perform_search only ever
\* returns Ok, so the process exits with 0; a panic that unwound
\* perform_search ends the process with the panic's exit code 101.
MainExit ==
    /\ mode = "done"
    /\ exit_code = Running
    /\ exit_code' = IF batch.tag = "Panic" THEN 101 ELSE 0
    /\ UNCHANGED <<inputs, orchvars, shutdown>>

NextOrch ==
    \/ CallSearchFilesParallel
    \/ PerformSearch
    \/ SpawnTask
    \/ DropTx
    \/ \E i \in 1..Len(tasks) : Acquire(i)
    \/ \E i \in 1..Len(tasks) : TaskSearch(i)
    \/ \E i \in 1..Len(tasks) : TaskSend(i)
    \/ Recv
    \/ Finish
    \/ SerialStep
    \/ SerialFinish

SpecOrch == InitOrch /\ [][NextOrch]_vars

\* The process of one `rfgrep search` run: main installs the Ctrl-C handler,
\* handle_search reads stdin or walks the files and calls perform_search,
\* main turns the outcome into the exit code.
NextProc ==
    \/ SigInt
    \/ HandleSearchStdin
    \/ PerformSearch
    \/ SerialStep
    \/ SerialFinish
    \/ MainExit

SpecProc == InitOrch /\ [][NextProc]_vars


\* ------------------------------------------------------------ the matchers
\* Texts and patterns over "a", "b" and "A"; and, for the vectorised loop of
\* the SIMD backend, short texts behind one byte less than a chunk of "b".
UpperCase == <<65>>             \* "A"
ByteUpperA == UpperCase[1]
MatchBytes == {ByteA, ByteB, ByteUpperA}
Pad == [i \in 1..(SimdStride - 1) |-> ByteB]
MatchTextSet ==
    SeqsUpTo(MatchBytes, MaxTextLen)
      \cup {Pad \o t : t \in SeqsUpTo(MatchBytes, 2) \ {<<>>}}
MatchPatternSet == SeqsUpTo(MatchBytes, MaxMatchPatLen)

\* str::to_lowercase on ASCII text
ToLower(byte) == IF byte >= 65 /\ byte <= 90 THEN byte + 32 ELSE byte
ToLowercase(s) == [i \in 1..Len(s) |-> ToLower(s[i])]

\* The search of the matcher create_search_algorithm builds for the
\* configuration: only the Regex pattern gets the (?i) prefix when
\* case_sensitive is false; SimdSearch::new and BoyerMoore::new take no
\* flag, and both constructors of SimpleSearch set case_sensitive: true.
\* (?i) on a literal finds it wherever the folded text holds the folded
\* pattern.
PipelineMatcherSearch(algorithm, p, t, cs) ==
    IF algorithm = "Regex" /\ ~cs
    THEN RegexSearchSearch(ToLowercase(p), ToLowercase(t))
    ELSE AlgoSearch(algorithm, p, t)

\* A text, a pattern and the case_sensitive flag; no matcher run yet.
InitMatch ==
    /\ file = NoFile
    /\ producer = "none"
    /\ result = NoResult
    /\ config = NoConfig
    /\ files = <<>>
    /\ max_concurrent = 1
    /\ OrchIdle
    /\ ProcIdle
    /\ pattern \in MatchPatternSet
    /\ text \in MatchTextSet
    /\ case_sensitive \in BOOLEAN
    /\ matcher = "none"
    /\ offsets = <<>>
    /\ AuxIdle

\* SimdSearch::search of the matcher built for the configuration
SimdSearchRun ==
    /\ matcher = "none"
    /\ matcher' = "Simd"
    /\ offsets' = PipelineMatcherSearch("Simd", pattern, text, case_sensitive)
    /\ UNCHANGED <<text, case_sensitive, fvars, orchvars, proc, tvars, aux>>

\* BoyerMoore::search of the matcher built for the configuration
BoyerMooreRun ==
    /\ matcher = "none"
    /\ matcher' = "BoyerMoore"
    /\ offsets' = PipelineMatcherSearch("BoyerMoore", pattern, text, case_sensitive)
    /\ UNCHANGED <<text, case_sensitive, fvars, orchvars, proc, tvars, aux>>

\* SimpleSearch::search of the matcher built for the configuration
SimpleSearchRun ==
    /\ matcher = "none"
    /\ matcher' = "Simple"
    /\ offsets' = PipelineMatcherSearch("Simple", pattern, text, case_sensitive)
    /\ UNCHANGED <<text, case_sensitive, fvars, orchvars, proc, tvars, aux>>

\* RegexSearch::search of the matcher built for the configuration
RegexSearchRun ==
    /\ matcher = "none"
    /\ matcher' = "Regex"
    /\ offsets' = PipelineMatcherSearch("Regex", pattern, text, case_sensitive)
    /\ UNCHANGED <<text, case_sensitive, fvars, orchvars, proc, tvars, aux>>

NextMatch == SimdSearchRun \/ BoyerMooreRun \/ SimpleSearchRun \/ RegexSearchRun

SpecMatch == InitMatch /\ [][NextMatch]_vars


\* ---------------------------------------------------- the per-file timeout
\* StreamingSearchPipeline::search_file with timeout_per_file.  The search
\* itself (do_search) has no point at which it yields, so once polled it runs
\* to its end however long it takes; tokio::time::timeout can only expire
\* while the future sleeps, which it does for RFGREP_WORKER_SLEEP seconds
\* when that variable is set.  `fires` decides the tie of a sleep as long as
\* the timeout.
SearchFileTimed(f, p, cfg, sleep, fires) ==
    IF f.binary THEN Ok(<<>>)
    ELSE IF cfg.timeout_per_file = None THEN SearchFile(f, p, cfg)
    ELSE IF sleep = None THEN SearchFile(f, p, cfg)
    ELSE IF sleep[1] > cfg.timeout_per_file[1]
            \/ (sleep[1] = cfg.timeout_per_file[1] /\ fires)
    THEN Ok(<<>>)
    ELSE SearchFile(f, p, cfg)

TimedConfigSet ==
    {[c EXCEPT !.timeout_per_file = t] :
        c \in OrchConfigSet, t \in {None} \cup {Some(n) : n \in 0..MaxT}}

\* One file, a configuration with or without a timeout, the environment's
\* RFGREP_WORKER_SLEEP and the time the search of the file takes.
InitTimed ==
    /\ file \in Corpus(PathOf(1)) \cup {BinaryFile(PathOf(1))}
                 \cup CompressedCorpus(PathOf(1))
    /\ pattern \in OrchPatternSet
    /\ config \in TimedConfigSet
    /\ worker_sleep \in {None} \cup {Some(n) : n \in 0..(MaxT + 1)}
    /\ search_time \in 0..(MaxT + 1)
    /\ producer = "none"
    /\ result = NoResult
    /\ files = <<>>
    /\ max_concurrent = 1
    /\ OrchIdle
    /\ MatchIdle
    /\ shutdown = FALSE
    /\ exit_code = Running
    /\ AuxIdle

\* pipeline.search_file(path, pattern) under the configuration's timeout
TimedSearchFile ==
    /\ producer = "none"
    /\ \E fires \in BOOLEAN :
         LET r == SearchFileTimed(file, pattern, config, worker_sleep, fires)
         IN result' = [tag |-> r.tag, kind |-> r.kind, matches |-> r.matches,
                       match_count |-> Len(r.matches)]
    /\ producer' = "timed"
    /\ UNCHANGED <<file, pattern, config, orchvars, proc, mvars, tvars, aux>>

NextTimed == TimedSearchFile

SpecTimed == InitTimed /\ [][NextTimed]_vars

\* ------------------------------------------------ classification of a file
InitClassify ==
    /\ sample \in SampleSet
    /\ mime \in MimeSet
    /\ verdict = "none"
    /\ FilterIdle
    /\ BMIdle
    /\ CacheIdle
    /\ BaseIdle

\* processor::is_binary(path)
IsBinaryRun ==
    /\ verdict = "none"
    /\ verdict' = IF IsBinary(mime, sample) THEN "binary" ELSE "text"
    /\ UNCHANGED <<sample, mime, base, flvars, bmvars, rcvars>>

NextClassify == IsBinaryRun

SpecClassify == InitClassify /\ [][NextClassify]_vars

\* --------------------------------------------------- filtering of a path
InitFilter ==
    /\ options \in FileFilterOptionsSet
    /\ candidate \in CandidateSet
    /\ accepted = "none"
    /\ ClassifyIdle
    /\ BMIdle
    /\ CacheIdle
    /\ BaseIdle

\* FileFilter::new(options).should_search_file(path)
ShouldSearchFileRun ==
    /\ accepted = "none"
    /\ accepted' = IF ShouldSearchFile(options, candidate) THEN "yes" ELSE "no"
    /\ UNCHANGED <<options, candidate, base, cvars, bmvars, rcvars>>

NextFilter == ShouldSearchFileRun

SpecFilter == InitFilter /\ [][NextFilter]_vars

\* ------------------------------------------- matches with their context
Newline == <<10>>
NL == Newline[1]

\* str::lines(): the pieces between newlines; a last piece only if it is not
\* empty.
RECURSIVE StrLines(_)
StrLines(t) ==
    IF t = <<>> THEN <<>>
    ELSE LET nls == {i \in 1..Len(t) : t[i] = NL}
         IN IF nls = {} THEN <<t>>
            ELSE LET first == CHOOSE i \in nls : \A j \in nls : i <= j
                 IN <<SubSeq(t, 1, first - 1)>> \o StrLines(SubSeq(t, first + 1, Len(t)))

\* text[..match_pos].rfind('\n').unwrap_or(0)
RFindNewline(t, match_pos) ==
    LET nls == {i \in 0..(match_pos - 1) : t[i + 1] = NL}
    IN IF nls = {} THEN 0 ELSE CHOOSE i \in nls : \A j \in nls : j <= i

\* get_context_before / get_context_after of search_algorithms.rs, on the
\* 0-based index of the current line
AlgoContextBefore(lines, current_line, k) ==
    LET start == SatSub(current_line, k)
    IN [n \in 1..(current_line - start) |-> <<start + n, lines[start + n]>>]
AlgoContextAfter(lines, current_line, k) ==
    LET end == Min(current_line + k + 1, Len(lines))
    IN [n \in 1..SatSub(end, current_line + 1) |->
           <<current_line + 1 + n, lines[current_line + 1 + n]>>]

\* The loop of BoyerMoore::search_with_context and of
\* SimpleSearch::search_with_context over the offsets `matches`.
RECURSIVE SearchWithContextLoop(_, _, _, _, _, _)
SearchWithContextLoop(t, p, k, matches, i, results) ==
    IF i > Len(matches) THEN results
    ELSE LET match_pos == matches[i]
             lines == StrLines(t)
             pre_lines == Len(StrLines(SubSeq(t, 1, match_pos)))
             line_number == Max(pre_lines, 1)
             line_index == line_number - 1
         IN IF line_index < Len(lines)
            THEN LET line == lines[line_index + 1]
                     line_start == RFindNewline(t, match_pos)
                     column_start == match_pos - line_start
                     column_end == column_start + Len(p)
                     matched_text ==
                         IF column_start < Len(line) /\ column_end <= Len(line)
                         THEN SubSeq(line, column_start + 1, column_end)
                         ELSE p
                 IN SearchWithContextLoop(t, p, k, matches, i + 1,
                      Append(results,
                        [line_number |-> line_number, line |-> line,
                         context_before |-> AlgoContextBefore(lines, line_index, k),
                         context_after |-> AlgoContextAfter(lines, line_index, k),
                         matched_text |-> matched_text,
                         column_start |-> column_start, column_end |-> column_end]))
            ELSE SearchWithContextLoop(t, p, k, matches, i + 1, results)

SearchWithContext(algorithm, p, t, k) ==
    SearchWithContextLoop(t, p, k, AlgoSearch(algorithm, p, t), 1, <<>>)

ContextTextSet == SeqsUpTo({ByteA, NL}, MaxTextLen)

\* A text of several lines, a pattern and a number of context lines.
InitContext ==
    /\ text \in ContextTextSet
    /\ pattern \in {<<ByteA>>, <<ByteA, ByteA>>}
    /\ config \in {[NoConfig EXCEPT !.context_lines = k] : k \in 0..MaxK}
    /\ case_sensitive = TRUE
    /\ matcher = "none"
    /\ offsets = <<>>
    /\ file = NoFile
    /\ producer = "none"
    /\ result = NoResult
    /\ files = <<>>
    /\ max_concurrent = 1
    /\ OrchIdle
    /\ ProcIdle
    /\ AuxIdle

\* BoyerMoore::new(pattern).search_with_context(text, pattern, k)
BoyerMooreWithContext ==
    /\ matcher = "none"
    /\ matcher' = "BoyerMoore"
    /\ offsets' = BoyerMooreSearch(pattern, text)
    /\ LET r == SearchWithContext("BoyerMoore", pattern, text, config.context_lines)
       IN result' = [tag |-> "Ok", kind |-> "", matches |-> r, match_count |-> Len(r)]
    /\ producer' = "search_with_context"
    /\ UNCHANGED <<text, case_sensitive, file, pattern, config, orchvars, proc, tvars, aux>>

\* SimpleSearch::new(pattern).search_with_context(text, pattern, k)
SimpleWithContext ==
    /\ matcher = "none"
    /\ matcher' = "Simple"
    /\ offsets' = SimpleSearchSearch(pattern, text)
    /\ LET r == SearchWithContext("Simple", pattern, text, config.context_lines)
       IN result' = [tag |-> "Ok", kind |-> "", matches |-> r, match_count |-> Len(r)]
    /\ producer' = "search_with_context"
    /\ UNCHANGED <<text, case_sensitive, file, pattern, config, orchvars, proc, tvars, aux>>

NextContext ==
    \/ BoyerMooreWithContext
    \/ SimpleWithContext

SpecContext == InitContext /\ [][NextContext]_vars

\* ---------------------------------------------- the backends of simd.rs
Strides == {Sse42Stride, SimdStride, Avx512Stride}
PadOf(n) == [i \in 1..n |-> ByteB]
\* Short texts, and texts that end within MaxTextLen bytes around the end of
\* the first chunk of each backend.
SimdTextSet ==
    SeqsUpTo(TextBytes, MaxTextLen)
      \cup {PadOf(st - 2) \o t : st \in Strides, t \in SeqsUpTo(TextBytes, MaxTextLen) \ {<<>>}}
SimdPatternSet == SeqsUpTo(TextBytes, MaxMatchPatLen) \ {<<>>}

\* A text and a non-empty pattern, for which SimdSearchEngine::new builds a
\* backend.
InitSimd ==
    /\ text \in SimdTextSet
    /\ pattern \in SimdPatternSet
    /\ case_sensitive = TRUE
    /\ matcher = "none"
    /\ offsets = <<>>
    /\ file = NoFile
    /\ producer = "none"
    /\ config = NoConfig
    /\ result = NoResult
    /\ files = <<>>
    /\ max_concurrent = 1
    /\ OrchIdle
    /\ ProcIdle
    /\ AuxIdle

\* Sse42Backend::search
Sse42BackendRun ==
    /\ matcher = "none"
    /\ matcher' = "Sse42"
    /\ offsets' = SimdBackendSearch(Sse42Stride, pattern, text)
    /\ UNCHANGED <<text, case_sensitive, fvars, orchvars, proc, tvars, aux>>

\* Avx2Backend::search
Avx2BackendRun ==
    /\ matcher = "none"
    /\ matcher' = "Avx2"
    /\ offsets' = SimdBackendSearch(SimdStride, pattern, text)
    /\ UNCHANGED <<text, case_sensitive, fvars, orchvars, proc, tvars, aux>>

\* Avx512Backend::search
Avx512BackendRun ==
    /\ matcher = "none"
    /\ matcher' = "Avx512"
    /\ offsets' = SimdBackendSearch(Avx512Stride, pattern, text)
    /\ UNCHANGED <<text, case_sensitive, fvars, orchvars, proc, tvars, aux>>

\* FallbackBackend::search
FallbackBackendRun ==
    /\ matcher = "none"
    /\ matcher' = "Fallback"
    /\ offsets' = FallbackBackendSearch(pattern, text)
    /\ UNCHANGED <<text, case_sensitive, fvars, orchvars, proc, tvars, aux>>

NextSimd ==
    \/ Sse42BackendRun
    \/ Avx2BackendRun
    \/ Avx512BackendRun
    \/ FallbackBackendRun

SpecSimd == InitSimd /\ [][NextSimd]_vars

\* ----------------------------------------- BoyerMoore::search, by steps
\* A text and a pattern; BoyerMoore::new(pattern) has built the tables.
InitBM ==
    /\ text \in SeqsUpTo(TextBytes, MaxTextLen)
    /\ pattern \in SeqsUpTo(TextBytes, MaxMatchPatLen)
    /\ case_sensitive = TRUE
    /\ matcher = "none"
    /\ offsets = <<>>
    /\ bm = NoFrame
    /\ file = NoFile
    /\ producer = "none"
    /\ config = NoConfig
    /\ result = NoResult
    /\ files = <<>>
    /\ max_concurrent = 1
    /\ OrchIdle
    /\ ProcIdle
    /\ ClassifyIdle
    /\ FilterIdle
    /\ CacheIdle

\* The head of BoyerMoore::search: the early return, or i = pattern_len - 1.
BMEnter ==
    /\ bm.pc = "idle"
    /\ bm' = IF Len(pattern) = 0 \/ Len(text) < Len(pattern)
             THEN [bm EXCEPT !.pc = "done"]
             ELSE [bm EXCEPT !.pc = "loop", !.i = Len(pattern) - 1]
    /\ matcher' = "BoyerMoore"
    /\ UNCHANGED <<text, case_sensitive, offsets, fvars, orchvars, proc, tvars>>
    /\ UNCHANGED <<cvars, flvars, rcvars>>

\* One iteration of `while i < text_len`: the backward comparison, the push
\* of a match, the shift.  The loop is followed for at most text_len + 1
\* iterations.
BMIterate ==
    /\ bm.pc = "loop"
    /\ bm.i < Len(text)
    /\ bm.iterations <= Len(text)
    /\ LET plen == Len(pattern)
           j == BMBackward(pattern, text, bm.i, plen - 1)
           k == bm.i - (plen - 1 - j)
           bad_char_shift == BadCharShift(pattern, text[bm.i + 1])
           good_suffix_shift == IF j < plen - 1
                                THEN GoodSuffixTable(pattern, j + 1) ELSE 1
           shift == Max(bad_char_shift, good_suffix_shift)
       IN /\ offsets' = IF j = 0 /\ text[k + 1] = pattern[1]
                        THEN Append(offsets, k) ELSE offsets
          /\ bm' = [pc |-> "loop", i |-> bm.i + shift, j |-> j, k |-> k,
                    shift |-> shift, iterations |-> bm.iterations + 1]
    /\ UNCHANGED <<text, case_sensitive, matcher, fvars, orchvars, proc, tvars>>
    /\ UNCHANGED <<cvars, flvars, rcvars>>

\* The loop's exit: `matches` is returned.
BMReturn ==
    /\ bm.pc = "loop"
    /\ bm.i >= Len(text)
    /\ bm' = [bm EXCEPT !.pc = "done"]
    /\ UNCHANGED <<text, case_sensitive, matcher, offsets, fvars, orchvars, proc, tvars>>
    /\ UNCHANGED <<cvars, flvars, rcvars>>

NextBM ==
    \/ BMEnter
    \/ BMIterate
    \/ BMReturn

SpecBM == InitBM /\ [][NextBM]_vars

\* ------------------------------------------------------ the regex cache
\* Regex::new(p) on a pattern string that compiles: the regex of that string.
Compiled(p) == [source |-> p]
\* HashMap::get and HashMap::insert on the pairs of the cache
CacheGet(cache, p) ==
    IF \E e \in cache : e[1] = p THEN Some((CHOOSE e \in cache : e[1] = p)[2]) ELSE None
CacheInsert(cache, p, r) == {e \in cache : e[1] # p} \cup {<<p, r>>}

CachePatternSet == {<<ByteA>>, <<ByteB>>, InvalidRegex}
\* A caller outside get_or_compile_regex.  `seen` is the cache as the caller
\* found it when it took the lock.
IdleCaller == [pc |-> "idle", pattern |-> <<>>, regex |-> None, ret |-> NoBatch, seen |-> {}, calls |-> 0]

\* An empty cache and callers on several threads.
InitCache ==
    /\ regex_cache = {}
    /\ mutex = None
    /\ callers = [c \in 1..MaxCallers |-> IdleCaller]
    /\ inserted = <<>>
    /\ ClassifyIdle
    /\ FilterIdle
    /\ BMIdle
    /\ BaseIdle

\* A caller that takes the cache without waiting for the mutex.
LockWithoutMutex ==
    \E c \in 1..Len(callers) :
       /\ callers[c].pc = "lock"
       /\ mutex' = Some(c)
       /\ callers' = [callers EXCEPT ![c].pc = "get", ![c].seen = regex_cache]
       /\ UNCHANGED <<regex_cache, inserted, base, cvars, flvars, bmvars>>

\* A thread calls get_or_compile_regex(pattern).
CallGetOrCompile ==
    \E c \in 1..Len(callers), p \in CachePatternSet :
       /\ callers[c].pc = "idle"
       /\ callers[c].calls < MaxCalls
       /\ callers' = [callers EXCEPT ![c].pc = "lock", ![c].pattern = p,
                                     ![c].calls = callers[c].calls + 1]
       /\ UNCHANGED <<regex_cache, mutex, inserted, base, cvars, flvars, bmvars>>

\* REGEX_CACHE.lock().unwrap(): the guard lives until the function returns.
LockCache ==
    \E c \in 1..Len(callers) :
       /\ callers[c].pc = "lock"
       /\ mutex = None
       /\ mutex' = Some(c)
       /\ callers' = [callers EXCEPT ![c].pc = "get", ![c].seen = regex_cache]
       /\ UNCHANGED <<regex_cache, inserted, base, cvars, flvars, bmvars>>

\* cache.get(pattern): a hit returns the clone, a miss goes on to compile.
CacheLookup ==
    \E c \in 1..Len(callers) :
       /\ callers[c].pc = "get"
       /\ LET hit == CacheGet(regex_cache, callers[c].pattern)
          IN callers' = IF hit # None
                        THEN [callers EXCEPT ![c].pc = "unlock",
                                             ![c].ret = [tag |-> "Ok", kind |-> "", matches |-> hit[1]]]
                        ELSE [callers EXCEPT ![c].pc = "compile"]
       /\ UNCHANGED <<regex_cache, mutex, inserted, base, cvars, flvars, bmvars>>

\* Regex::new(pattern).map_err(RfgrepError::Regex)?
CompileRegex ==
    \E c \in 1..Len(callers) :
       /\ callers[c].pc = "compile"
       /\ callers' = IF RegexCompiles(callers[c].pattern)
                     THEN [callers EXCEPT ![c].pc = "insert",
                                          ![c].regex = Some(Compiled(callers[c].pattern))]
                     ELSE [callers EXCEPT ![c].pc = "unlock", ![c].ret = Err("Regex")]
       /\ UNCHANGED <<regex_cache, mutex, inserted, base, cvars, flvars, bmvars>>

\* cache.insert(pattern.to_string(), regex.clone()); Ok(regex)
CacheInsertRegex ==
    \E c \in 1..Len(callers) :
       /\ callers[c].pc = "insert"
       /\ regex_cache' = CacheInsert(regex_cache, callers[c].pattern, callers[c].regex[1])
       /\ inserted' = Append(inserted, callers[c].pattern)
       /\ callers' = [callers EXCEPT ![c].pc = "unlock",
                                     ![c].ret = [tag |-> "Ok", kind |-> "",
                                                 matches |-> callers[c].regex[1]]]
       /\ UNCHANGED <<mutex, base, cvars, flvars, bmvars>>

\* The function returns: the guard is dropped.
ReturnRegex ==
    \E c \in 1..Len(callers) :
       /\ callers[c].pc = "unlock"
       /\ mutex' = IF mutex = Some(c) THEN None ELSE mutex
       /\ callers' = [callers EXCEPT ![c] = [IdleCaller EXCEPT !.calls = callers[c].calls]]
       /\ UNCHANGED <<regex_cache, inserted, base, cvars, flvars, bmvars>>

NextCache ==
    \/ CallGetOrCompile
    \/ LockCache
    \/ CacheLookup
    \/ CompileRegex
    \/ CacheInsertRegex
    \/ ReturnRegex

SpecCache == InitCache /\ [][NextCache]_vars

\* ------------------------------------------------- claims on one input
Contains(line, p) == \E o \in 0..Len(line) : OccursAt(line, p, o)
AllDecodable(lines) == \A i \in 1..Len(lines) : IsUtf8(lines[i])
Records == {result.matches[i] : i \in 1..Len(result.matches)}
Ran == producer # "none" /\ result.tag = "Ok"
\* A non-empty pattern that is a valid regular expression and a literal.
LiteralPattern == pattern # <<>> /\ RegexCompiles(pattern)
StrictlyIncreasing(ctx) == \A i \in 1..(Len(ctx) - 1) : ctx[i][1] < ctx[i + 1][1]

\* The lines lo..hi of the input, each paired with its line number.
NumberedLines(lines, lo, hi) == [i \in 1..(hi - lo + 1) |-> <<lo + i - 1, lines[lo + i - 1]>>]

\* C1: every match record's line_number is the 1-based index of the matched
\* line within its input (the entry's lines, for an archive): the line of
\* the input at that index is the record's line.  Stated for the streaming
\* pipeline, the processor's streaming search (also behind archive entries)
\* and the stdin search, with a non-empty literal pattern.
C1_LineNumberIsIndex ==
    (Ran /\ LiteralPattern) => \A m \in Records :
             /\ m.line_number \in 1..Len(file.lines)
             /\ file.lines[m.line_number] = m.line

\* C2: with max_matches = m set, at most m match records are emitted for the
\* input (a searched file, an archive, stdin), m = 0 included.
C2_AtMostMaxMatches ==
    (Ran /\ config.max_matches # None)
       => Len(result.matches) <= config.max_matches[1]

\* C3: with invert_match on, the per-file search of the pipeline reports
\* exactly the lines that do not contain the pattern (the complement, within
\* [1, line_count], of the lines reported with invert_match off).  Checked
\* on fully decodable files, without context and without max_matches.
C3_InvertIsComplement ==
    (/\ producer = "pipeline" /\ result.tag = "Ok"
     /\ LiteralPattern
     /\ config.invert_match /\ config.max_matches = None
     /\ config.context_lines = 0 /\ AllDecodable(file.lines))
       => {m.line_number : m \in Records}
             = {i \in 1..Len(file.lines) : ~Contains(file.lines[i], pattern)}

\* The context-lines value a producer works with.
ContextOf(p) == IF p = "pipeline" THEN config.context_lines ELSE CONTEXT_LINES

\* C4: for a match on line n of a file of L lines, context-before is exactly
\* the lines max(1, n-k) .. n-1 and context-after exactly the lines
\* n+1 .. min(L, n+k), each with its true number and text; for every match of
\* the file.  Checked on fully decodable files, for the pipeline and the
\* processor's streaming search.
C4_ContextIsExact ==
    (/\ producer \in {"pipeline", "processor"} /\ result.tag = "Ok"
     /\ LiteralPattern
     /\ AllDecodable(file.lines))
       => \A m \in Records :
            LET n == m.line_number
                k == ContextOf(producer)
                L == Len(file.lines)
            IN n \in 1..L =>
                 /\ m.context_before = NumberedLines(file.lines, Max(1, n - k), n - 1)
                 /\ m.context_after = NumberedLines(file.lines, n + 1, Min(L, n + k))

\* C5: in every emitted record the line numbers of context-before are
\* strictly less than line_number and strictly increasing, those of
\* context-after strictly greater and strictly increasing; pipeline and
\* processor alike.
C5_ContextOrdered ==
    (/\ producer \in {"pipeline", "processor", "archive"} /\ result.tag = "Ok"
     /\ LiteralPattern)
       => \A m \in Records :
            /\ \A i \in 1..Len(m.context_before) : m.context_before[i][1] < m.line_number
            /\ StrictlyIncreasing(m.context_before)
            /\ \A i \in 1..Len(m.context_after) : m.context_after[i][1] > m.line_number
            /\ StrictlyIncreasing(m.context_after)

\* C6: the column span of every emitted (non-inverted) record delimits its
\* matched text inside the line: 0 <= column_start <= column_end <= len(line)
\* and line[column_start..column_end] = matched_text.
C6_ColumnSpanIsMatchedText ==
    (Ran /\ LiteralPattern /\ ~config.invert_match)
       => \A m \in Records :
            /\ 0 <= m.column_start
            /\ m.column_start <= m.column_end
            /\ m.column_end <= Len(m.line)
            /\ SubSeq(m.line, m.column_start + 1, m.column_end) = m.matched_text


\* -------------------------------------------------- claims on a batch
Returned == mode = "done" /\ batch.tag = "Ok"
Count(m, ms) == Cardinality({i \in 1..Len(ms) : ms[i] = m})
Range(ms) == {ms[i] : i \in 1..Len(ms)}

\* What the per-file search of the i-th file of the batch returns.
FileResult(i) == SearchFile(files[i], pattern, config)

\* The matches of the files whose search succeeds, in the order of the batch.
RECURSIVE MatchesFrom(_)
MatchesFrom(i) ==
    IF i > Len(files) THEN <<>>
    ELSE (IF FileResult(i).tag = "Ok" THEN FileResult(i).matches ELSE <<>>)
           \o MatchesFrom(i + 1)

\* a before-or-equal b in the order (path, line_number, column_start)
KeyLeq(a, b) ==
    IF CmpPath(a.path, b.path) # 0 THEN CmpPath(a.path, b.path) < 0
    ELSE IF a.line_number # b.line_number THEN a.line_number < b.line_number
    ELSE a.column_start <= b.column_start

\* C7: the match list the orchestrator returns (parallel path or serial
\* path) is sorted lexicographically by (path, line_number, column_start).
C7_SortedByPathLineColumn ==
    Returned => \A i \in 1..(Len(batch.matches) - 1) :
                  KeyLeq(batch.matches[i], batch.matches[i + 1])

\* C8: whatever the interleaving of the tasks and the ceiling N >= 1, the
\* list search_files_parallel returns is the one list fixed by the files,
\* the pattern and the configuration: the matches of the files whose search
\* succeeded, each as often as found, in the total order of the records.
\* N = 1 yields that list too, so no record is lost, duplicated or reordered
\* by scheduling.
C8_ParallelDeterministic ==
    (route = "parallel" /\ mode = "done" /\ files # <<>>)
       => /\ batch.tag = "Ok"
          /\ Len(batch.matches) = Len(MatchesFrom(1))
          /\ \A m \in Range(MatchesFrom(1)) :
                Count(m, batch.matches) = Count(m, MatchesFrom(1))
          /\ \A i \in 1..(Len(batch.matches) - 1) :
                CmpMatch(batch.matches[i], batch.matches[i + 1]) <= 0

\* C8, reached: a parallel search with N = 2 has returned the matches of two
\* files, received in another order than the one returned.
C8_Reordered ==
    /\ route = "parallel" /\ mode = "done" /\ max_concurrent >= 2
    /\ batch.tag = "Ok"
    /\ \E i, j \in 1..Len(batch.matches) : batch.matches[i].path # batch.matches[j].path
    /\ all_matches # batch.matches

\* C9: when the per-file search of some file has returned an error (and the
\* error was reported), the batch
\* still returns Ok with every match of every file whose search succeeded,
\* on the parallel path and on the serial path.
C9_ErrorsDoNotFailBatch ==
    (mode = "done" /\ logged # <<>>)
       => /\ batch.tag = "Ok"
          /\ \A m \in Range(MatchesFrom(1)) :
                Count(m, batch.matches) >= Count(m, MatchesFrom(1))

\* C10: a per-file search task never panics, and once the parallel search
\* has returned every task has sent exactly one result on the channel.
C10_TaskSendsOneResult ==
    \A i \in 1..Len(tasks) :
       /\ tasks[i].pc # "panicked"
       /\ (mode = "done" => tasks[i].sent = 1)


\* -------------------------------------------------- claims on a matcher
Searched == matcher # "none"
ByteMatchers == {"Simd", "BoyerMoore", "Simple"}
OffsetSet == {offsets[i] : i \in 1..Len(offsets)}

\* The text differs from the pattern only in letter case.
CaseVariant ==
    /\ pattern # <<>>
    /\ text # pattern
    /\ ToLowercase(text) = ToLowercase(pattern)

\* C14: with case_sensitive false a pattern is found in a text that differs
\* from it only in letter case, whichever algorithm the pipeline selected;
\* with case_sensitive true it is not found.
C14_CaseFlagHonoured ==
    (Searched /\ CaseVariant)
       => IF case_sensitive THEN offsets = <<>> ELSE offsets # <<>>


\* C15: for a non-empty pattern p and a text t, every offset o the SIMD,
\* Boyer-Moore and Simple matchers return satisfies o + |p| <= |t| and
\* t[o : o + |p|] = p.
C15_OffsetsAreOccurrences ==
    (matcher \in ByteMatchers /\ pattern # <<>>)
       => \A o \in OffsetSet : o >= 0 /\ OccursAt(text, pattern, o)

\* C15, reached: the SIMD matcher has returned the offset of an occurrence
\* that starts in the last byte of a whole chunk and ends behind it.
C15_FoundAcrossChunk ==
    /\ matcher = "Simd"
    /\ Len(pattern) = 2
    /\ Len(text) > SimdStride
    /\ (SimdStride - 1) \in OffsetSet

\* C16: for a non-empty pattern and a text, the SIMD, Boyer-Moore and Simple
\* matchers return the same offsets.
C16_ByteMatchersAgree ==
    (matcher \in ByteMatchers /\ pattern # <<>>)
       => \A other \in ByteMatchers :
             offsets = PipelineMatcherSearch(other, pattern, text, case_sensitive)

\* C17: with the empty pattern every matcher returns the empty offset
\* sequence, for every text, the empty text included.
C17_EmptyPatternFindsNothing ==
    (Searched /\ pattern = <<>>) => offsets = <<>>

\* C18: the matches a matcher returns do not overlap: two consecutive
\* offsets differ by at least |p|.
C18_NonOverlapping ==
    (Searched /\ pattern # <<>>)
       => \A i \in 1..(Len(offsets) - 1) : offsets[i + 1] - offsets[i] >= Len(pattern)


\* ------------------------------------------- claims on undecodable lines
\* C20: in the streaming per-file search of the pipeline a line that is not
\* valid UTF-8 never makes the search of a readable file return an error,
\* wherever the line occurs, among the context-after lines of a match
\* included.
C20_UndecodableLineSkipped ==
    (producer = "pipeline" /\ file.readable /\ LiteralPattern)
       => result.tag = "Ok"


\* ------------------------------------------------- claims on the timeout
\* The seconds from the start of search_file to the end of the search, were
\* it left to run.
TimeNeeded == (IF worker_sleep = None THEN 0 ELSE worker_sleep[1]) + search_time

\* C11: with a per-file timeout T set, a file whose search has not completed
\* when T expires yields an empty match list and Ok, never an error, however
\* long the search itself takes; stated for readable files and non-empty
\* literal patterns.
C11_TimeoutYieldsEmpty ==
    (/\ producer = "timed"
     /\ file.readable /\ LiteralPattern
     /\ config.timeout_per_file # None
     /\ TimeNeeded > config.timeout_per_file[1])
       => result.tag = "Ok" /\ result.matches = <<>>


\* ------------------------------------------- claims on the running batch
\* The tasks that hold a permit: past acquire, not yet ended.
Holders == {i \in 1..Len(tasks) : tasks[i].pc \in {"search", "send"}}

\* C12: once SHUTDOWN_REQUESTED is set, the orchestrator dispatches no
\* further per-file search: no task is spawned and the serial loop searches
\* no further file.
C12_NoDispatchAfterShutdown ==
    [][shutdown => (Len(tasks') = Len(tasks) /\ next_file' = next_file)]_vars

\* C13: at every moment of search_files_parallel with ceiling N at most N
\* tasks hold a permit and are in their per-file search; the permits free
\* and held add up to N.
C13_AtMostNHoldPermits ==
    (route = "parallel" /\ files # <<>>)
       => /\ Cardinality(Holders) <= max_concurrent
          /\ permits >= 0
          /\ permits + Cardinality(Holders) = max_concurrent

\* C13, reached: every permit is held and a further task waits for one.
C13_CeilingReached ==
    /\ route = "parallel"
    /\ Holders # {}
    /\ Cardinality(Holders) = max_concurrent
    /\ permits = 0
    /\ \E i \in 1..Len(tasks) : tasks[i].pc = "acquire"

\* C19: a pattern that is no valid regular expression makes the run exit
\* with 1, a run without an unrecoverable error exits with 0; for the stdin
\* search and for the search of at least one file with the Regex algorithm.
C19_InvalidRegexExitsOne ==
    (exit_code # Running
       /\ (route = "stdin" \/ (config.algorithm = "Regex" /\ files # <<>>)))
       => exit_code = (IF RegexCompiles(pattern) THEN 0 ELSE 1)


\* ------------------------------------------- claims on the classification
\* Every second byte of the sample is zero (UTF-16 text of either order).
EverySecondByteZero ==
    \/ \A i \in 1..Len(sample) : i % 2 = 0 => sample[i] = NulByte[1]
    \/ \A i \in 1..Len(sample) : i % 2 = 1 => sample[i] = NulByte[1]
HasBom ==
    \/ Len(sample) >= 2 /\ Take(sample, 2) \in {BomUtf16Le, BomUtf16Be}
    \/ Len(sample) >= 3 /\ Take(sample, 3) = BomUtf8

\* C22: a non-empty sample without byte-order mark that is no
\* every-second-byte-zero pattern, for a file whose MIME guess is absent or
\* text/*, is classified binary exactly if its null bytes exceed 10 % of
\* the sampled bytes.
C22_NullRatioDecides ==
    (/\ verdict # "none"
     /\ sample # <<>>
     /\ ~HasBom
     /\ ~EverySecondByteZero
     /\ (mime = None \/ mime[1][1] = "text"))
       => (verdict = "binary" <=> 10 * NullBytes(sample) > Len(sample))


\* ------------------------------------------- claims on compressed inputs
\* C21: search_file on a compressed stream searches the decompressed
\* content: every decompressed line containing the pattern is the line of a
\* match record; the file is not dropped before the search.  Stated without
\* timeout, for a non-empty literal pattern.
C21_CompressedIsSearched ==
    (/\ producer = "timed"
     /\ file.kind = "compressed"
     /\ LiteralPattern
     /\ config.timeout_per_file = None)
       => /\ result.tag = "Ok"
          /\ \A i \in 1..Len(file.lines) :
                Contains(file.lines[i], pattern)
                   => \E m \in Records : m.line = file.lines[i]


\* ------------------------------------------------- claims on the filter
\* The safety policy of the same name as the file-type strategy, where there
\* is one; every other option at its default.
StrategyAlone ==
    /\ candidate.metadata
    /\ options = [DefaultOptions EXCEPT
                     !.file_types = options.file_types,
                     !.safety_policy =
                        IF options.file_types \in {"Conservative", "Performance"}
                        THEN options.file_types ELSE "Default"]

\* C23: Conservative accepts a file exactly if its extension is in
\* always-search and its size is <= 10 MiB; Performance accepts exactly the
\* files of size <= 500 MiB; Comprehensive accepts exactly the files whose
\* extension is not in never-search; Default accepts what the classifier's
\* table yields.
C23_StrategyDecides ==
    (accepted # "none" /\ StrategyAlone)
       => (accepted = "yes" <=>
             IF options.file_types = "Conservative"
             THEN candidate.ext \in AlwaysSearch /\ candidate.size <= ConservativeMaxSize
             ELSE IF options.file_types = "Performance"
             THEN candidate.size <= PerformanceMaxSize
             ELSE IF options.file_types = "Comprehensive"
             THEN candidate.ext \notin NeverSearch
             ELSE ClassifierShouldSearch(candidate.ext) # "Skip")


\* ------------------------------------- claims on lines read as context
\* C24: with context-lines k > 0 every line of the file that contains the
\* pattern is the line of a match record, also a line within the k lines
\* after an earlier matching line.  Stated for the pipeline and the
\* processor's streaming search on fully decodable files, a non-empty
\* literal pattern, without inversion and without a match limit.
C24_ContextLinesAreSearched ==
    (/\ Ran
     /\ producer \in {"pipeline", "processor"}
     /\ LiteralPattern
     /\ AllDecodable(file.lines)
     /\ ContextOf(producer) > 0
     /\ ~config.invert_match
     /\ config.max_matches = None)
       => \A i \in 1..Len(file.lines) :
             Contains(file.lines[i], pattern)
                => \E m \in Records : m.line = file.lines[i]


\* ------------------------------------------- claims on the batch's return
\* C25: search_files_parallel on a non-empty file list returns for every
\* concurrency ceiling --threads accepts: a spawned task that waits for a
\* permit can take one, or some task holds one and will release it.
C25_WaitingTaskGetsPermit ==
    (route = "parallel" /\ \E i \in 1..Len(tasks) : tasks[i].pc = "acquire")
       => (permits > 0 \/ Holders # {})


\* ------------------------------------- claims on matches with context
\* The number of newlines in text[0..p].
NewlinesBefore(t, p) == Cardinality({i \in 1..p : t[i] = NL})
\* The line around offset p: from after the last newline before p up to
\* the next newline at or after p.
LineAround(t, p) ==
    LET before == {i \in 1..p : t[i] = NL}
        after == {i \in (p + 1)..Len(t) : t[i] = NL}
        lo == IF before = {} THEN 1 ELSE 1 + CHOOSE i \in before : \A j \in before : j <= i
        hi == IF after = {} THEN Len(t) ELSE (CHOOSE i \in after : \A j \in after : i <= j) - 1
    IN SubSeq(t, lo, hi)

\* C26: for every offset p the matcher returns, search_with_context reports
\* one record, in the order of the offsets, with line_number = 1 + the number
\* of newlines in text[0..p] and line = the text of that line.
C26_LineNumberCountsNewlines ==
    producer = "search_with_context"
       => /\ Len(result.matches) = Len(offsets)
          /\ \A i \in 1..Len(offsets) :
                i <= Len(result.matches)
                   => /\ result.matches[i].line_number = 1 + NewlinesBefore(text, offsets[i])
                      /\ result.matches[i].line = LineAround(text, offsets[i])


\* ---------------------------------- claims on the two processor searches
\* C27: on valid UTF-8 content the memory-mapped search and the streaming
\* fallback return the same list of match records; each one's result is
\* compared with what the other returns for the same file and pattern.
C27_MmapEqualsStreaming ==
    (/\ producer \in {"processor", "mmap"}
     /\ AllDecodable(file.lines)
     /\ LiteralPattern)
       => result.matches =
             IF producer = "mmap"
             THEN FindMatchesStreaming(file.lines, pattern, file.path).matches
             ELSE FindMatchesWithContext(file.lines, pattern, file.path).matches


\* --------------------------------------------- claims on the backends
\* The occurrences of the pattern in the text, by offset.
Occurrences == {o \in 0..Len(text) : OccursAt(text, pattern, o)}
StrideOf(m) == IF m = "Sse42" THEN Sse42Stride ELSE IF m = "Avx2" THEN SimdStride ELSE Avx512Stride

\* C28: every backend returns every occurrence of the pattern once, in
\* increasing order, and nothing else; so each vectorised backend returns
\* exactly what the scalar FallbackBackend returns.
C28_BackendsReturnAllOccurrences ==
    matcher \in {"Sse42", "Avx2", "Avx512", "Fallback"}
       => /\ {offsets[i] : i \in 1..Len(offsets)} = Occurrences
          /\ \A i \in 1..(Len(offsets) - 1) : offsets[i] < offsets[i + 1]

\* C28, reached: a vectorised backend has returned an occurrence that starts
\* in its first chunk and ends in the next bytes, and one in the tail.
C28_AcrossChunkAndTail ==
    /\ matcher \in {"Sse42", "Avx2", "Avx512"}
    /\ \E i, j \in 1..Len(offsets) :
          /\ offsets[i] < StrideOf(matcher)
          /\ offsets[i] + Len(pattern) > StrideOf(matcher)
          /\ offsets[j] >= StrideOf(matcher)


\* ------------------------------------ claims on BoyerMoore::search's loop
\* C29: every iteration of the outer loop advances the window end i by at
\* least 1; the backward comparison ends at an index k >= 0 within the text
\* and a j within the pattern; the loop ends after at most text_len
\* iterations and the search returns what it has pushed.
C29_BoyerMooreAdvances ==
    /\ bm.iterations > 0
          => /\ bm.shift >= 1
             /\ bm.k >= 0 /\ bm.k < Len(text)
             /\ bm.j >= 0 /\ bm.j < Len(pattern)
             /\ bm.k + (Len(pattern) - 1 - bm.j) < Len(text)
    /\ bm.iterations <= Len(text)
    /\ bm.pc = "done" => offsets = BoyerMooreSearch(pattern, text)

\* C29, reached: a search of several iterations has returned a match of a
\* pattern of several bytes whose comparison went back to the text's start.
C29_SearchedToEnd ==
    /\ bm.pc = "done"
    /\ bm.iterations >= 2
    /\ Len(pattern) >= 2
    /\ \E n \in 1..Len(offsets) : offsets[n] = 0


\* ------------------------------------------- claims on the regex cache
\* C30: under any interleaving of callers the cache maps a pattern string
\* only to the regex compiled from it; a pattern is inserted at most once
\* and no entry is removed; a call returns the regex of its pattern, and a
\* call whose compilation fails returns a Regex error and leaves the cache as
\* it found it.
C30_CacheIsConsistent ==
    /\ \A e \in regex_cache : RegexCompiles(e[1]) /\ e[2] = Compiled(e[1])
    /\ \A m, n \in 1..Len(inserted) : m # n => inserted[m] # inserted[n]
    /\ {e[1] : e \in regex_cache} = {inserted[n] : n \in 1..Len(inserted)}
    /\ \A c \in 1..Len(callers) :
          callers[c].pc = "unlock"
             => IF RegexCompiles(callers[c].pattern)
                THEN /\ callers[c].ret.tag = "Ok"
                     /\ callers[c].ret.matches = Compiled(callers[c].pattern)
                     /\ <<callers[c].pattern, Compiled(callers[c].pattern)>> \in regex_cache
                ELSE /\ callers[c].ret = Err("Regex")
                     /\ regex_cache = callers[c].seen

\* C30, reached: a caller has got from the cache the regex another call
\* inserted, while another caller waits for the lock.
C30_HitWhileOtherWaits ==
    \E c, d \in 1..Len(callers) :
       /\ callers[c].pc = "unlock"
       /\ callers[c].ret.tag = "Ok"
       /\ \E e \in callers[c].seen : e[1] = callers[c].pattern
       /\ callers[d].pc = "lock"

=============================================================================
